---- MODULE Spec2Model ----
(***************************************************************************)
(* Model of the Neuron type of src/src/lib.rs: construction, the           *)
(* axonal/dendritic connection protocol, pruning, detect/fire and the      *)
(* transmit update pipeline.                                               *)
(*                                                                         *)
(* f64 quantities are fixed-point integers in units of 1/Scale, and every  *)
(* f64 operation rounds its exact result to the nearest unit (ties to      *)
(* even), the way an IEEE-754 operation rounds to the nearest              *)
(* representable value.  Every constant of the source is an exact          *)
(* multiple of 1/Scale.                                                    *)
(***************************************************************************)
EXTENDS Integers, FiniteSets, Sequences, TLC

VARIABLES
    neurons,    \* binding -> Neuron value
    last,       \* the most recent call and what it returned
    pre,        \* `neurons` as it was when that call was made
    processed,  \* transmit calls so far that ran the update pipeline
    pc          \* the statement of the end-to-end test that runs next

vars == <<neurons, last, pre, processed, pc>>

\* ---------------------------------------------------------------- f64
\* One unit of the fixed-point representation of f64 is 1/Scale.
Scale == 10 ^ 3

\* The f64 value of the decimal literal n/d.
Dec(n, d) == (n * Scale) \div d

\* n/d rounded to the nearest integer, ties to even (d # 0).
RoundDiv(n, d) ==
    LET nn == IF d < 0 THEN -n ELSE n
        dd == IF d < 0 THEN -d ELSE d
        q  == nn \div dd
        r  == nn - q * dd
    IN  IF 2 * r < dd THEN q
        ELSE IF 2 * r > dd THEN q + 1
        ELSE IF q % 2 = 0 THEN q ELSE q + 1

\* f64 multiplication and division (b # 0) of two fixed-point values.
Mul(a, b) == RoundDiv(a * b, Scale)
Div(a, b) == RoundDiv(a * Scale, b)

Min(a, b) == IF a < b THEN a ELSE b
Max(a, b) == IF a > b THEN a ELSE b
\* f64::clamp(lo, hi)
Clamp(v, lo, hi) == IF v < lo THEN lo ELSE IF v > hi THEN hi ELSE v
\* f64::abs
Abs(v) == IF v < 0 THEN -v ELSE v

\* ---------------------------------------------------------- constants
BASE_ABSOLUTE_REFRACTORY_PERIOD == Dec(1, 1)
ABSOLUTE_REFRACTORY_PERIOD_DECREASE_FACTOR == Dec(99, 100)
BASE_RELATIVE_REFRACTORY_PERIOD == Dec(1, 1)
RELATIVE_REFRACTORY_PERIOD_RECOVERY_FACTOR == Dec(165, 1000)
RESTING_POTENTIAL == Dec(-70, 1)
ACCUMULATED_POTENTIAL_CRITICAL_VALUE == Dec(10, 1)
ACCUMULATED_POTENTIAL_STIMULUS_INTENSITY == Dec(8, 10)
ACCUMULATED_POTENTIAL_SLIGHT_INTENSITY == Dec(8, 100)
MAX_THRESHOLD_POTENTIAL == Dec(-50, 1)
MIN_THRESHOLD_POTENTIAL == Dec(-55, 1)
THRESHOLD_POTENTIAL_BOOST_FACTOR_FOR_ACCUMULATED_POTENTIAL == Dec(1, 100)
THRESHOLD_POTENTIAL_BOOST_FACTOR_FOR_FIRING_RATE == Dec(2, 100)
MIN_MEMBRANE_POTENTIAL == Dec(-90, 1)
MAX_MEMBRANE_POTENTIAL == Dec(-20, 1)
MIN_EXCITATORY_SIGNAL == Dec(1, 1)
MAX_EXCITATORY_SIGNAL == Dec(30, 1)
MIN_INHIBITORY_SIGNAL == Dec(-20, 1)
MAX_INHIBITORY_SIGNAL == Dec(-1, 1)
MAX_FIRING_RATE == Dec(1, 1)
FIRING_RATE_DECREASE_FACTOR == Dec(92, 100)
FIRING_RATE_BOOST_FACTOR == Dec(1, 100)
MAX_PLASTICITY_RATE == Dec(1, 1)
PLASTICITY_RATE_DECREASE_FACTOR == Dec(96, 100)
PLASTICITY_RATE_BOOST_FACTOR == Dec(1, 100)
MAX_LTP == Dec(1, 1)
LTP_BOOST_FACTOR == Dec(1, 100)
LTP_DECREASE_FACTOR == Dec(96, 100)
MIN_LTD == Dec(-1, 1)
LTD_BOOST_FACTOR == Dec(1, 100)
LTD_DECREASE_FACTOR == Dec(96, 100)
SYNAPTIC_STRENGTH_THRESHOLD_BOOST_FACTOR == Dec(1, 100)

\* ------------------------------------------------------- construction
\* The neurons of the program: the three bindings of the test fixtures.
Neurons == {"neuron0", "neuron1", "neuron2"}

\* The coordinate arguments <<x, y, z, ax, ay, az>> each binding is
\* constructed with.
CoordArgs(id) ==
    CASE id = "neuron0" -> <<0, 0, 0, 1, 1, 1>>
      [] id = "neuron1" -> <<1, 1, 1, 2, 2, 2>>
      [] id = "neuron2" -> <<1, 2, 3, 2, 3, 4>>

\* The type codes <<nt, nrt>> each binding is constructed with.
TypeArgs(id) ==
    CASE id = "neuron0" -> <<1, 0>>
      [] id = "neuron1" -> <<1, 1>>
      [] id = "neuron2" -> <<2, 1>>

\* Mutant: the neuron type check is off by one.
NewPanics_off_by_one(nt, nrt) == nt > 3 \/ nrt > 1

\* Neuron::new panics on an invalid type code.
NewPanics(nt, nrt) == nt > 2 \/ nrt > 1

\* Neuron::new: the value returned when it does not panic.
New(x, y, z, ax, ay, az, nt, nrt) ==
    [ x |-> x, y |-> y, z |-> z, ax |-> ax, ay |-> ay, az |-> az,
      nt |-> nt, nrt |-> nrt,
      ap  |-> 0,
      tp  |-> MIN_THRESHOLD_POTENTIAL,
      mp  |-> RESTING_POTENTIAL,
      fr  |-> 0,
      sw  |-> Dec(1, 1),
      sst |-> 0,
      pr  |-> Dec(1, 1),
      arp |-> 0,
      rrp |-> BASE_RELATIVE_REFRACTORY_PERIOD,
      ac  |-> {},
      dc  |-> {},
      nc  |-> Dec(1, 1),
      ltp |-> 0,
      ltd |-> 0 ]

\* The freshly constructed neuron of a binding, with type codes nt, nrt.
Fresh(id, nt, nrt) ==
    LET c == CoordArgs(id)
    IN  New(c[1], c[2], c[3], c[4], c[5], c[6], nt, nrt)

\* The soma coordinate (x, y, z) of a neuron value.
Soma(n) == <<n.x, n.y, n.z>>

\* ------------------------------------------------ connection protocol
\* Each operation takes the state N of all neurons, the binding `self`
\* it is called on and the binding `other` it is given, and returns the
\* state after the call.  self # other: both are &mut borrows.

\* Mutant: the dendritic side records the axon terminal (ax, ay, az) of
\* self instead of its soma.
establish_axonal_connection_axon_coord(N, self, other) ==
    LET N1 == [N EXCEPT ![self].ac = @ \cup {Soma(N[other])}]
    IN  [N1 EXCEPT ![other].dc = @ \cup {<<N1[self].ax, N1[self].ay, N1[self].az>>}]

establish_axonal_connection(N, self, other) ==
    LET N1 == [N EXCEPT ![self].ac = @ \cup {Soma(N[other])}]
    IN  [N1 EXCEPT ![other].dc = @ \cup {Soma(N1[self])}]

establish_dendritic_connection(N, self, other) ==
    LET N1 == [N EXCEPT ![self].dc = @ \cup {Soma(N[other])}]
    IN  [N1 EXCEPT ![other].ac = @ \cup {Soma(N1[self])}]

\* Mutant: only self's side of the edge is removed.
terminate_axonal_connection_one_sided(N, self, other) ==
    [N EXCEPT ![self].ac = @ \ {Soma(N[other])}]

\* Mutant: self's axonal set is cleared instead of losing one element.
terminate_axonal_connection_clears(N, self, other) ==
    LET N1 == [N EXCEPT ![self].ac = {}]
    IN  [N1 EXCEPT ![other].dc = @ \ {Soma(N1[self])}]

terminate_axonal_connection(N, self, other) ==
    LET N1 == [N EXCEPT ![self].ac = @ \ {Soma(N[other])}]
    IN  [N1 EXCEPT ![other].dc = @ \ {Soma(N1[self])}]

\* Mutant: the second removal is made on the other neuron's dendritic
\* set instead of its axonal set.
terminate_dendritic_connection_wrong_set(N, self, other) ==
    LET N1 == [N EXCEPT ![self].dc = @ \ {Soma(N[other])}]
    IN  [N1 EXCEPT ![other].dc = @ \ {Soma(N1[self])}]

terminate_dendritic_connection(N, self, other) ==
    LET N1 == [N EXCEPT ![self].dc = @ \ {Soma(N[other])}]
    IN  [N1 EXCEPT ![other].ac = @ \ {Soma(N1[self])}]

\* Mutant: the decay branch compares with <= (ties terminate).
prune_axonal_connection_tie_terminates(N, self, other) ==
    IF N[self].sw <= N[self].sst /\ N[self].sw <= N[other].sw
    THEN terminate_axonal_connection(N, self, other)
    ELSE IF N[self].sw >= N[other].sw
    THEN establish_axonal_connection(N, self, other)
    ELSE N

\* Mutant: the establish branch is a plain else.
prune_axonal_connection_else_establishes(N, self, other) ==
    IF N[self].sw <= N[self].sst /\ N[self].sw < N[other].sw
    THEN terminate_axonal_connection(N, self, other)
    ELSE establish_axonal_connection(N, self, other)

prune_axonal_connection(N, self, other) ==
    IF N[self].sw <= N[self].sst /\ N[self].sw < N[other].sw
    THEN terminate_axonal_connection(N, self, other)
    ELSE IF N[self].sw >= N[other].sw
    THEN establish_axonal_connection(N, self, other)
    ELSE N

\* Mutant: a neuron at or below its strength threshold drops the edge
\* whatever the weight of the other neuron.
prune_dendritic_connection_weak_terminates(N, self, other) ==
    IF N[self].sw <= N[self].sst
    THEN terminate_dendritic_connection(N, self, other)
    ELSE IF N[other].sw >= N[self].sw
    THEN establish_dendritic_connection(N, self, other)
    ELSE N

\* Mutant: the weights are compared as prune_axonal_connection compares
\* them.
prune_dendritic_connection_axonal_order(N, self, other) ==
    IF N[self].sw <= N[self].sst /\ N[self].sw < N[other].sw
    THEN terminate_dendritic_connection(N, self, other)
    ELSE IF N[self].sw >= N[other].sw
    THEN establish_dendritic_connection(N, self, other)
    ELSE N

prune_dendritic_connection(N, self, other) ==
    IF N[self].sw <= N[self].sst /\ N[other].sw < N[self].sw
    THEN terminate_dendritic_connection(N, self, other)
    ELSE IF N[other].sw >= N[self].sw
    THEN establish_dendritic_connection(N, self, other)
    ELSE N

\* --------------------------------------------------------- call record
\* `last` is the most recent call, `pre` the state it was made in.
\*   status: "none" (no call yet), "ok" (returned), "panic" (unwound)
\*   ret:    the f64 returned by detect, or the milliseconds of delay
\*           requested by transmit; retnan: detect returned NaN
\*   args:   the type codes <<nt, nrt>> given to Neuron::new
NoCall ==
    [ op |-> "none", self |-> "none", other |-> "none", input |-> 0,
      status |-> "none", ret |-> 0, retnan |-> FALSE, args |-> <<>> ]

Call(op, self, other) ==
    [ op |-> op, self |-> self, other |-> other, input |-> 0,
      status |-> "ok", ret |-> 0, retnan |-> FALSE, args |-> <<>> ]

\* A panic unwinds the test: nothing runs after it.
Running == last.status # "panic"

\* ---------------------------------------------------------------- Init
\* The three neurons as the tests construct them.
Init ==
    /\ neurons = [id \in Neurons |-> Fresh(id, TypeArgs(id)[1], TypeArgs(id)[2])]
    /\ last = NoCall
    /\ pre = neurons
    /\ processed = 0
    /\ pc = "idle"

\* ------------------------------------------------- connection actions
\* The <<sw, sst>> values the pruning tests assign to the public fields.
WeightCases == { <<Dec(5, 100), 0>>, <<Dec(1, 10), Dec(1, 10)>> }

\* neuron.sw = w; neuron.sst = t  (direct assignment to the pub fields)
SetWeights(self, w, t) ==
    /\ Running
    /\ neurons' = [neurons EXCEPT ![self].sw = w, ![self].sst = t]
    /\ last' = Call("set_weights", self, "none")
    /\ pre' = neurons
    /\ UNCHANGED pc
    /\ UNCHANGED processed

EstablishAxonal(self, other) ==
    /\ Running /\ self # other
    /\ neurons' = establish_axonal_connection(neurons, self, other)
    /\ last' = Call("establish_axonal_connection", self, other)
    /\ pre' = neurons
    /\ UNCHANGED pc
    /\ UNCHANGED processed

EstablishDendritic(self, other) ==
    /\ Running /\ self # other
    /\ neurons' = establish_dendritic_connection(neurons, self, other)
    /\ last' = Call("establish_dendritic_connection", self, other)
    /\ pre' = neurons
    /\ UNCHANGED pc
    /\ UNCHANGED processed

TerminateAxonal(self, other) ==
    /\ Running /\ self # other
    /\ neurons' = terminate_axonal_connection(neurons, self, other)
    /\ last' = Call("terminate_axonal_connection", self, other)
    /\ pre' = neurons
    /\ UNCHANGED pc
    /\ UNCHANGED processed

TerminateDendritic(self, other) ==
    /\ Running /\ self # other
    /\ neurons' = terminate_dendritic_connection(neurons, self, other)
    /\ last' = Call("terminate_dendritic_connection", self, other)
    /\ pre' = neurons
    /\ UNCHANGED pc
    /\ UNCHANGED processed

PruneAxonal(self, other) ==
    /\ Running /\ self # other
    /\ neurons' = prune_axonal_connection(neurons, self, other)
    /\ last' = Call("prune_axonal_connection", self, other)
    /\ pre' = neurons
    /\ UNCHANGED pc
    /\ UNCHANGED processed

PruneDendritic(self, other) ==
    /\ Running /\ self # other
    /\ neurons' = prune_dendritic_connection(neurons, self, other)
    /\ last' = Call("prune_dendritic_connection", self, other)
    /\ pre' = neurons
    /\ UNCHANGED pc
    /\ UNCHANGED processed

\* The connection protocol: any sequence of connection and pruning calls
\* on any ordered pair of distinct neurons, with weights set as the
\* pruning tests set them.
Next ==
    \/ \E self \in Neurons, wt \in WeightCases : SetWeights(self, wt[1], wt[2])
    \/ \E self \in Neurons, other \in Neurons : EstablishAxonal(self, other)
    \/ \E self \in Neurons, other \in Neurons : EstablishDendritic(self, other)
    \/ \E self \in Neurons, other \in Neurons : TerminateAxonal(self, other)
    \/ \E self \in Neurons, other \in Neurons : TerminateDendritic(self, other)
    \/ \E self \in Neurons, other \in Neurons : PruneAxonal(self, other)
    \/ \E self \in Neurons, other \in Neurons : PruneDendritic(self, other)

Spec == Init /\ [][Next]_vars

\* ------------------------------------------------------ the pipeline
\* Each update takes a Neuron value n and returns the value after it.

\* Mutant: the potential accumulates the magnitude of the input.
update_ap_magnitude(n, input) ==
    IF Abs(input) >= ACCUMULATED_POTENTIAL_CRITICAL_VALUE
    THEN [n EXCEPT !.ap = @ + Mul(Mul(Mul(ACCUMULATED_POTENTIAL_STIMULUS_INTENSITY, Abs(input)), n.nc), n.rrp)]
    ELSE [n EXCEPT !.ap = @ + Mul(Mul(Mul(ACCUMULATED_POTENTIAL_SLIGHT_INTENSITY, Abs(input)), n.nc), n.rrp)]

update_ap(n, input) ==
    IF Abs(input) >= ACCUMULATED_POTENTIAL_CRITICAL_VALUE
    THEN [n EXCEPT !.ap = @ + Mul(Mul(Mul(ACCUMULATED_POTENTIAL_STIMULUS_INTENSITY, input), n.nc), n.rrp)]
    ELSE [n EXCEPT !.ap = @ + Mul(Mul(Mul(ACCUMULATED_POTENTIAL_SLIGHT_INTENSITY, input), n.nc), n.rrp)]

update_mp(n) ==
    [n EXCEPT !.mp = Clamp(RESTING_POTENTIAL + n.ap,
                           MIN_MEMBRANE_POTENTIAL, MAX_MEMBRANE_POTENTIAL)]

update_tp(n) ==
    LET t0 == MIN_THRESHOLD_POTENTIAL
        t1 == IF n.ap > 0
              THEN t0 + Mul(THRESHOLD_POTENTIAL_BOOST_FACTOR_FOR_ACCUMULATED_POTENTIAL, n.ap)
              ELSE t0
        t2 == t1 + Mul(THRESHOLD_POTENTIAL_BOOST_FACTOR_FOR_FIRING_RATE, n.fr)
    IN  [n EXCEPT !.tp = Min(t2, MAX_THRESHOLD_POTENTIAL)]

\* detection_arp: whether the neuron is absolutely refractory, and the
\* value after the decay it applies in that case.
detection_arp_gated(n) == n.arp > 0

\* Mutant: the decay is added to arp instead of subtracted.
detection_arp_increases(n) ==
    IF n.arp > 0
    THEN [n EXCEPT !.arp = Clamp(@ + Mul(ABSOLUTE_REFRACTORY_PERIOD_DECREASE_FACTOR, n.fr),
                                 0, BASE_ABSOLUTE_REFRACTORY_PERIOD)]
    ELSE n

detection_arp(n) ==
    IF n.arp > 0
    THEN [n EXCEPT !.arp = Clamp(@ - Mul(ABSOLUTE_REFRACTORY_PERIOD_DECREASE_FACTOR, n.fr),
                                 0, BASE_ABSOLUTE_REFRACTORY_PERIOD)]
    ELSE n

update_rp(n) ==
    LET n1 == IF n.rrp < BASE_RELATIVE_REFRACTORY_PERIOD
              THEN [n EXCEPT !.rrp = Min(@ + Mul(RELATIVE_REFRACTORY_PERIOD_RECOVERY_FACTOR, n.fr),
                                         BASE_RELATIVE_REFRACTORY_PERIOD)]
              ELSE n
    IN  IF n1.mp >= n1.tp
        THEN [n1 EXCEPT !.arp = BASE_ABSOLUTE_REFRACTORY_PERIOD, !.rrp = 0]
        ELSE n1

\* Mutant: the two branches are exchanged, so the rate decays at
\* threshold and is boosted below it.
update_fr_inverted(n) ==
    LET f == IF n.mp >= n.tp
             THEN Mul(n.fr, FIRING_RATE_DECREASE_FACTOR)
             ELSE n.fr + Mul(FIRING_RATE_BOOST_FACTOR,
                             Div(n.ap, ACCUMULATED_POTENTIAL_CRITICAL_VALUE))
    IN  [n EXCEPT !.fr = Min(f, MAX_FIRING_RATE)]

\* Mutant: the boost is applied whether or not the neuron is at threshold.
update_fr_always_boosts(n) ==
    [n EXCEPT !.fr = Min(n.fr + Mul(FIRING_RATE_BOOST_FACTOR,
                                    Div(n.ap, ACCUMULATED_POTENTIAL_CRITICAL_VALUE)),
                         MAX_FIRING_RATE)]

update_fr(n) ==
    LET f == IF n.mp >= n.tp
             THEN n.fr + Mul(FIRING_RATE_BOOST_FACTOR,
                             Div(n.ap, ACCUMULATED_POTENTIAL_CRITICAL_VALUE))
             ELSE Mul(n.fr, FIRING_RATE_DECREASE_FACTOR)
    IN  [n EXCEPT !.fr = Min(f, MAX_FIRING_RATE)]

update_pr(n) ==
    LET p == IF n.mp >= n.tp
             THEN n.pr + Mul(PLASTICITY_RATE_BOOST_FACTOR, n.fr)
             ELSE Mul(n.pr, PLASTICITY_RATE_DECREASE_FACTOR)
    IN  [n EXCEPT !.pr = Min(p, MAX_PLASTICITY_RATE)]

\* Mutant: every non-zero input takes the boost branch.
update_ltp_boosts_nonzero(n, input) ==
    LET l == IF input # 0
             THEN n.ltp + Mul(LTP_BOOST_FACTOR,
                              Div(input, ACCUMULATED_POTENTIAL_CRITICAL_VALUE))
             ELSE Mul(n.ltp, LTP_DECREASE_FACTOR)
    IN  [n EXCEPT !.ltp = Min(l, MAX_LTP)]

update_ltp(n, input) ==
    LET l == IF input > 0
             THEN n.ltp + Mul(LTP_BOOST_FACTOR,
                              Div(input, ACCUMULATED_POTENTIAL_CRITICAL_VALUE))
             ELSE Mul(n.ltp, LTP_DECREASE_FACTOR)
    IN  [n EXCEPT !.ltp = Min(l, MAX_LTP)]

update_ltd(n, input) ==
    LET l == IF input < 0
             THEN n.ltd + Mul(LTD_BOOST_FACTOR,
                              Div(input, ACCUMULATED_POTENTIAL_CRITICAL_VALUE))
             ELSE Mul(n.ltd, LTD_DECREASE_FACTOR)
    IN  [n EXCEPT !.ltd = Max(l, MIN_LTD)]

update_sst(n, input) ==
    [n EXCEPT !.sst = Clamp(@ - Mul(SYNAPTIC_STRENGTH_THRESHOLD_BOOST_FACTOR,
                                    Div(input, ACCUMULATED_POTENTIAL_CRITICAL_VALUE)),
                            MIN_LTD, MAX_LTP)]

update_sw(n) ==
    [n EXCEPT !.sw = Clamp(@ + Mul(n.ltp + n.ltd, n.pr), MIN_LTD, MAX_LTP)]

\* Mutant: the gate decays arp but does not return, so the ten updates
\* run on a refractory neuron as well.
transmit_gate_falls_through(n, input) ==
    LET n0  == detection_arp(n)
        n1  == update_ap(n0, input)
        n2  == update_mp(n1)
        n3  == update_tp(n2)
        n4  == update_rp(n3)
        n5  == update_fr(n4)
        n6  == update_pr(n5)
        n7  == update_ltp(n6, input)
        n8  == update_ltd(n7, input)
        n9  == update_sst(n8, input)
    IN  update_sw(n9)

\* Mutant: the firing rate is updated before the refractory periods, so
\* the recovery of rrp uses the new fr.
transmit_fr_before_rp(n, input) ==
    IF detection_arp_gated(n)
    THEN detection_arp(n)
    ELSE LET n1  == update_ap(n, input)
             n2  == update_mp(n1)
             n3  == update_tp(n2)
             n4  == update_fr(n3)
             n5  == update_rp(n4)
             n6  == update_pr(n5)
             n7  == update_ltp(n6, input)
             n8  == update_ltd(n7, input)
             n9  == update_sst(n8, input)
         IN  update_sw(n9)

\* transmit after the delay: the refractory gate, then the ten updates
\* in their order.
transmit(n, input) ==
    IF detection_arp_gated(n)
    THEN detection_arp(n)
    ELSE LET n1  == update_ap(n, input)
             n2  == update_mp(n1)
             n3  == update_tp(n2)
             n4  == update_rp(n3)
             n5  == update_fr(n4)
             n6  == update_pr(n5)
             n7  == update_ltp(n6, input)
             n8  == update_ltd(n7, input)
             n9  == update_sst(n8, input)
         IN  update_sw(n9)

\* ------------------------------------------------------------- delay
\* usize subtraction self - other underflows on some axis.
Underflows(self, other) ==
    self.x < other.x \/ self.y < other.y \/ self.z < other.z

\* (a - b).pow(2) on usize.  Without overflow checks a - b wraps to
\* 2^64 + (a - b) when a < b and pow(2) wraps again, which leaves
\* (a - b)^2 mod 2^64; coordinates here are far below 2^32.
SquaredDiff(a, b) == (a - b) * (a - b)

\* The argument of sqrt in calculate_distance.
calculate_distance_squared(self, other) ==
    SquaredDiff(self.x, other.x) + SquaredDiff(self.y, other.y)
        + SquaredDiff(self.z, other.z)

\* signal_delay(calculate_distance(..)): sqrt, then f64::round to u64.
\* sqrt of an integer is never an exact half, so the nearest integer m
\* is the one with (2m - 1)^2 <= 4 d2 < (2m + 1)^2.
signal_delay_millis(d2) ==
    CHOOSE m \in 0..d2 :
        /\ 4 * d2 < (2 * m + 1) * (2 * m + 1)
        /\ m = 0 \/ (2 * m - 1) * (2 * m - 1) <= 4 * d2

\* -------------------------------------------------------- detect/fire
\* fire: the signal returned.  With fr = 0 the factor is +infinity, the
\* product is +-infinity (clamped to a bound) or, for ap = 0, NaN.
fire_is_nan(n) == n.nrt \in {0, 1} /\ n.fr = 0 /\ n.ap = 0

\* Mutant: the product is returned without the clamp.
fire_output_unclamped(n) ==
    CASE n.nrt = 1 ->
            IF n.fr = 0
            THEN (IF n.ap > 0 THEN MAX_EXCITATORY_SIGNAL ELSE MIN_EXCITATORY_SIGNAL)
            ELSE Mul(n.ap, Div(FIRING_RATE_BOOST_FACTOR, n.fr))
      [] n.nrt = 0 ->
            IF n.fr = 0
            THEN (IF n.ap > 0 THEN MIN_INHIBITORY_SIGNAL ELSE MAX_INHIBITORY_SIGNAL)
            ELSE Mul(-n.ap, Div(FIRING_RATE_BOOST_FACTOR, n.fr))
      [] OTHER -> 0

fire_output(n) ==
    CASE n.nrt = 1 ->
            IF n.fr = 0
            THEN (IF n.ap > 0 THEN MAX_EXCITATORY_SIGNAL ELSE MIN_EXCITATORY_SIGNAL)
            ELSE Clamp(Mul(n.ap, Div(FIRING_RATE_BOOST_FACTOR, n.fr)),
                       MIN_EXCITATORY_SIGNAL, MAX_EXCITATORY_SIGNAL)
      [] n.nrt = 0 ->
            IF n.fr = 0
            THEN (IF n.ap > 0 THEN MIN_INHIBITORY_SIGNAL ELSE MAX_INHIBITORY_SIGNAL)
            ELSE Clamp(Mul(-n.ap, Div(FIRING_RATE_BOOST_FACTOR, n.fr)),
                       MIN_INHIBITORY_SIGNAL, MAX_INHIBITORY_SIGNAL)
      [] OTHER -> 0

\* Mutant: firing also returns the membrane potential to rest.
fire_resets_mp(n) == [n EXCEPT !.ap = 0, !.mp = RESTING_POTENTIAL]

\* Mutant: firing leaves the accumulated potential in place.
fire_keeps_ap(n) == n

\* fire: the neuron afterwards.
fire(n) == [n EXCEPT !.ap = 0]

\* Mutant: the reset of fire is applied on the quiescent path as well.
detect_always_resets(n) == fire(n)

\* detect: whether it fires, the neuron afterwards and the value returned.
detect_fires(n) == n.mp >= n.tp
detect(n) == IF detect_fires(n) THEN fire(n) ELSE n
detect_output(n) == IF detect_fires(n) THEN fire_output(n) ELSE 0
detect_is_nan(n) == detect_fires(n) /\ fire_is_nan(n)

\* ---------------------------------------------------- dynamic actions
\* The number of transmit calls that run the pipeline in one behaviour.
MaxProcessed == 3

\* The input signals: both ends of [-100, 100], a slight negative
\* input, zero and the 20.0 of the tests.
Inputs == { Dec(-100, 1), Dec(-5, 1), 0, Dec(20, 1), Dec(100, 1) }

\* The neuron the signals are sent to, and the sources it is given:
\* None, or the neuron with a coordinate above the subject's own.
Subject == "neuron1"
Sources == {"none", "neuron2"}

\* self.transmit(input, source).await returns; source = "none" is None.
\* When a coordinate of source exceeds that of self the subtraction
\* wraps: this is the outcome of a build without overflow checks.
Transmit(self, input, source) ==
    LET n == neurons[self]
        gated == detection_arp_gated(n)
    IN  /\ Running
        /\ source # self
        /\ gated \/ processed < MaxProcessed
        /\ pre' = neurons
        /\ UNCHANGED pc
        /\ neurons' = [neurons EXCEPT ![self] = transmit(n, input)]
        /\ processed' = IF gated THEN processed ELSE processed + 1
        /\ last' = [ op |-> "transmit", self |-> self, other |-> source,
                     input |-> input, status |-> "ok",
                     ret |-> IF source = "none" THEN 0
                             ELSE signal_delay_millis(
                                    calculate_distance_squared(n, neurons[source])),
                     retnan |-> FALSE, args |-> <<>> ]

\* self.transmit(input, Some(source)) in a build with overflow checks,
\* when a coordinate of source exceeds that of self: the subtraction in
\* calculate_distance panics before any state is touched.
TransmitPanics(self, input, source) ==
    /\ Running
    /\ source \notin {self, "none"}
    /\ Underflows(neurons[self], neurons[source])
    /\ pre' = neurons
    /\ UNCHANGED pc
    /\ UNCHANGED <<neurons, processed>>
    /\ last' = [ op |-> "transmit", self |-> self, other |-> source,
                 input |-> input, status |-> "panic", ret |-> 0,
                 retnan |-> FALSE, args |-> <<>> ]

\* self.detect()
Detect(self) ==
    LET n == neurons[self]
    IN  /\ Running
        /\ pre' = neurons
        /\ UNCHANGED pc
        /\ neurons' = [neurons EXCEPT ![self] = detect(n)]
        /\ processed' = processed
        /\ last' = [ op |-> "detect", self |-> self, other |-> "none",
                     input |-> 0, status |-> "ok",
                     ret |-> IF detect_is_nan(n) THEN 0 ELSE detect_output(n),
                     retnan |-> detect_is_nan(n), args |-> <<>> ]

\* A freshly constructed neuron of either neurotransmitter type, beside
\* the two other neurons of the fixture.
InitDyn ==
    /\ \E nrt \in {0, 1} :
          neurons = [id \in Neurons |->
                        IF id = Subject THEN Fresh(id, TypeArgs(id)[1], nrt)
                        ELSE Fresh(id, TypeArgs(id)[1], TypeArgs(id)[2])]
    /\ last = NoCall
    /\ pre = neurons
    /\ processed = 0
    /\ pc = "idle"

\* Any sequence of transmit calls interleaved with detect calls.
NextDyn ==
    \/ \E input \in Inputs, source \in Sources :
          Transmit(Subject, input, source)
    \/ \E input \in Inputs, source \in Sources :
          TransmitPanics(Subject, input, source)
    \/ Detect(Subject)

SpecDyn == InitDyn /\ [][NextDyn]_vars

\* The inputs that are zero or negative, and any sequence of transmit
\* calls with such inputs interleaved with detect calls.
NonPositive == { input \in Inputs : input <= 0 }

NextNonPos ==
    \/ \E input \in NonPositive, source \in Sources :
          Transmit(Subject, input, source)
    \/ \E input \in NonPositive, source \in Sources :
          TransmitPanics(Subject, input, source)
    \/ Detect(Subject)

SpecNonPos == InitDyn /\ [][NextNonPos]_vars

\* Any sequence of transmit calls without a source (no delay, no
\* distance computed) interleaved with detect calls.
NextRefractory ==
    \/ \E input \in Inputs : Transmit(Subject, input, "none")
    \/ Detect(Subject)

\* A transmit call that finds the neuron absolutely refractory, seen on
\* `neurons` alone: whatever the input and the source, it leaves the
\* decayed arp and nothing else.
RefractoryTransmit ==
    /\ Running
    /\ detection_arp_gated(neurons[Subject])
    /\ neurons' = [neurons EXCEPT ![Subject] = detection_arp(neurons[Subject])]

\* The caller keeps sending signals: while the neuron is refractory a
\* further transmit call is always eventually made (and returns, the
\* sleep of signal_delay being finite).
SpecRefractory ==
    InitDyn /\ [][NextRefractory]_vars /\ WF_neurons(RefractoryTransmit)

\* ------------------------------------------------ construction action
\* The largest type code (a u32) given to Neuron::new.
MaxTypeCode == 3

\* let mut <id> = Neuron::new(x, y, z, ax, ay, az, nt, nrt), with the
\* coordinates of the binding: the binding holds the new value, or the
\* call panics and no value is produced.
NewNeuron(id, nt, nrt) ==
    /\ Running
    /\ pre' = neurons
    /\ UNCHANGED pc
    /\ UNCHANGED processed
    /\ IF NewPanics(nt, nrt)
       THEN /\ neurons' = neurons
            /\ last' = [ op |-> "new", self |-> id, other |-> "none",
                         input |-> 0, status |-> "panic", ret |-> 0,
                         retnan |-> FALSE, args |-> <<nt, nrt>> ]
       ELSE /\ neurons' = [neurons EXCEPT ![id] = Fresh(id, nt, nrt)]
            /\ last' = [ op |-> "new", self |-> id, other |-> "none",
                         input |-> 0, status |-> "ok", ret |-> 0,
                         retnan |-> FALSE, args |-> <<nt, nrt>> ]

NextNew ==
    \E id \in Neurons, nt \in 0..MaxTypeCode, nrt \in 0..MaxTypeCode :
        NewNeuron(id, nt, nrt)

SpecNew == Init /\ [][NextNew]_vars

\* ------------------------------------------------ the end-to-end test
\* test_signal_accumulation_and_firing, one action per statement; pc is
\* the line of the statement that runs next, "done" after the break,
\* "failed" after a failed assertion or a panic, and "nan" once a NaN
\* signal has been handed to neuron2: its ap, mp and every comparison
\* with them are then NaN for good, so the loop cannot end any more.

\* self.transmit(input, source).await returned.
Transmitted(self, input, source) ==
    LET n == neurons[self]
    IN  /\ pre' = neurons
        /\ neurons' = [neurons EXCEPT ![self] = transmit(n, input)]
        /\ processed' = IF detection_arp_gated(n) THEN processed
                         ELSE processed + 1
        /\ last' = [ op |-> "transmit", self |-> self, other |-> source,
                     input |-> input, status |-> "ok",
                     ret |-> IF source = "none" THEN 0
                             ELSE signal_delay_millis(
                                    calculate_distance_squared(n, neurons[source])),
                     retnan |-> FALSE, args |-> <<>> ]

\* self.transmit(input, Some(source)) panicked in calculate_distance.
TransmitPanicked(self, input, source) ==
    /\ pre' = neurons
    /\ UNCHANGED <<neurons, processed>>
    /\ last' = [ op |-> "transmit", self |-> self, other |-> source,
                 input |-> input, status |-> "panic", ret |-> 0,
                 retnan |-> FALSE, args |-> <<>> ]

\* self.detect() returned.
Detected(self) ==
    LET n == neurons[self]
    IN  /\ pre' = neurons
        /\ neurons' = [neurons EXCEPT ![self] = detect(n)]
        /\ processed' = processed
        /\ last' = [ op |-> "detect", self |-> self, other |-> "none",
                     input |-> 0, status |-> "ok",
                     ret |-> IF detect_is_nan(n) THEN 0 ELSE detect_output(n),
                     retnan |-> detect_is_nan(n), args |-> <<>> ]

\* neuron0.transmit(20.0, None).await;
T96 ==
    /\ pc = "l96"
    /\ Transmitted("neuron0", Dec(20, 1), "none")
    /\ pc' = "l97"

\* let output = neuron0.detect(); assert!(output < 0.0);
T97 ==
    /\ pc = "l97"
    /\ Detected("neuron0")
    /\ pc' = IF ~last'.retnan /\ last'.ret < 0 THEN "l100" ELSE "failed"

\* neuron2.transmit(output, Some(&mut neuron0)).await;  with overflow
\* checks the call panics when a coordinate of neuron0 exceeds neuron2's.
T100 ==
    /\ pc = "l100"
    /\ \E checks \in BOOLEAN :
          IF checks /\ Underflows(neurons["neuron2"], neurons["neuron0"])
          THEN /\ TransmitPanicked("neuron2", last.ret, "neuron0")
               /\ pc' = "failed"
          ELSE /\ Transmitted("neuron2", last.ret, "neuron0")
               /\ pc' = "l101"

\* let output = neuron2.detect(); assert_eq!(output, 0.0);
T101 ==
    /\ pc = "l101"
    /\ Detected("neuron2")
    /\ pc' = IF ~last'.retnan /\ last'.ret = 0 THEN "l105" ELSE "failed"

\* loop { neuron1.transmit(20.0, None).await;
T105 ==
    /\ pc = "l105"
    /\ Transmitted("neuron1", Dec(20, 1), "none")
    /\ pc' = "l106"

\* let mut output = neuron1.detect();
T106 ==
    /\ pc = "l106"
    /\ Detected("neuron1")
    /\ pc' = IF last'.retnan THEN "nan" ELSE "l107"

\* neuron2.transmit(output, Some(&mut neuron1)).await;
T107 ==
    /\ pc = "l107"
    /\ \E checks \in BOOLEAN :
          IF checks /\ Underflows(neurons["neuron2"], neurons["neuron1"])
          THEN /\ TransmitPanicked("neuron2", last.ret, "neuron1")
               /\ pc' = "failed"
          ELSE /\ Transmitted("neuron2", last.ret, "neuron1")
               /\ pc' = "l108"

\* output = neuron2.detect();
\* if output > 0.0 { assert_eq!(neuron2.ap, 0.0); break; } }
T108 ==
    /\ pc = "l108"
    /\ Detected("neuron2")
    /\ pc' = IF ~last'.retnan /\ last'.ret > 0
             THEN (IF neurons'["neuron2"].ap = 0 THEN "done" ELSE "failed")
             ELSE "l105"

\* The three fresh neurons of the test, at its first statement or, for
\* a caller that runs the loop alone, at the head of the loop.
InitLoop ==
    /\ neurons = [id \in Neurons |-> Fresh(id, TypeArgs(id)[1], TypeArgs(id)[2])]
    /\ last = NoCall
    /\ pre = neurons
    /\ processed = 0
    /\ pc \in {"l96", "l105"}

NextLoop ==
    \/ T96 \/ T97 \/ T100 \/ T101
    \/ T105 \/ T106 \/ T107 \/ T108

\* The statements of the test, and control moving on from one of them.
\* Every statement is a call of a total handler, so at each of these
\* lines a step of NextLoop is enabled and every such step changes pc.
Statements == {"l96", "l97", "l100", "l101", "l105", "l106", "l107", "l108"}
StatementRuns ==
    /\ pc \in Statements
    /\ pc' \in Statements \cup {"done", "failed", "nan"}

\* The test is one sequential task: every statement that is reached
\* completes (the sleep of signal_delay is finite), so control always
\* eventually moves on from the statement it is at.
SpecLoop == InitLoop /\ [][NextLoop]_vars /\ WF_pc(StatementRuns)

\* ------------------------------------------------- connection claims
\* The edge a -> b as a's axonal set records it, and as b's dendritic
\* set records it.
AxonalSide(N, a, b) == Soma(N[b]) \in N[a].ac
DendriticSide(N, a, b) == Soma(N[a]) \in N[b].dc

\* The connection sets of all neurons, and everything but them.
Conn(N) == [id \in Neurons |-> <<N[id].ac, N[id].dc>>]
Scalars(N) == [id \in Neurons |-> [N[id] EXCEPT !.ac = {}, !.dc = {}]]

\* The last call was op(self = a, other = b) and it returned.
Called(op, a, b) ==
    last.op = op /\ last.self = a /\ last.other = b /\ last.status = "ok"

\* C1: in every state reachable through the connection and pruning
\* calls, for all neurons A # B, B's coordinate is in A.ac if and only
\* if A's coordinate is in B.dc.
C1_Mirror ==
    \A a \in Neurons, b \in Neurons :
        a # b => (AxonalSide(neurons, a, b) <=> DendriticSide(neurons, a, b))

\* An edge was just removed by pruning while another edge stands.
C1_Witness ==
    \E a \in Neurons, b \in Neurons, c \in Neurons :
        /\ a # b /\ c # a
        /\ Called("prune_dendritic_connection", b, a)
        /\ AxonalSide(pre, a, b) /\ ~AxonalSide(neurons, a, b)
        /\ AxonalSide(neurons, c, a) /\ DendriticSide(neurons, c, a)

\* C2: after A.establish_axonal_connection(B), A.ac contains B's
\* coordinate and B.dc contains A's, and nothing else changed: A.dc,
\* B.ac, the other elements of A.ac and B.dc, every scalar field and
\* every third neuron; likewise for establish_dendritic_connection with
\* ac and dc exchanged.
C2_EstablishFrame ==
    \A a \in Neurons, b \in Neurons :
        /\ Called("establish_axonal_connection", a, b) =>
              /\ Soma(pre[b]) \in neurons[a].ac
              /\ Soma(pre[a]) \in neurons[b].dc
              /\ neurons[a].ac \ {Soma(pre[b])} = pre[a].ac \ {Soma(pre[b])}
              /\ neurons[b].dc \ {Soma(pre[a])} = pre[b].dc \ {Soma(pre[a])}
              /\ neurons[a].dc = pre[a].dc
              /\ neurons[b].ac = pre[b].ac
              /\ Scalars(neurons) = Scalars(pre)
              /\ \A c \in Neurons \ {a, b} : neurons[c] = pre[c]
        /\ Called("establish_dendritic_connection", a, b) =>
              /\ Soma(pre[b]) \in neurons[a].dc
              /\ Soma(pre[a]) \in neurons[b].ac
              /\ neurons[a].dc \ {Soma(pre[b])} = pre[a].dc \ {Soma(pre[b])}
              /\ neurons[b].ac \ {Soma(pre[a])} = pre[b].ac \ {Soma(pre[a])}
              /\ neurons[a].ac = pre[a].ac
              /\ neurons[b].dc = pre[b].dc
              /\ Scalars(neurons) = Scalars(pre)
              /\ \A c \in Neurons \ {a, b} : neurons[c] = pre[c]

\* establish_axonal_connection added a new edge to sets that already
\* held other elements, with a third neuron connected as well.
C2_Witness ==
    \E a \in Neurons, b \in Neurons, c \in Neurons :
        /\ a # b /\ c \notin {a, b}
        /\ Called("establish_axonal_connection", a, b)
        /\ ~AxonalSide(pre, a, b) /\ AxonalSide(neurons, a, b)
        /\ AxonalSide(pre, a, c) /\ DendriticSide(pre, c, b)
        /\ pre[a].dc # {} /\ pre[b].ac # {} /\ pre[c].ac # {}

\* A.op1(B) is immediately followed by A.op2(B) in this step: `pre` is
\* the state before op1, neurons' the state after op2.
Followed(op1, op2, a, b) ==
    /\ Called(op1, a, b)
    /\ last'.op = op2 /\ last'.self = a /\ last'.other = b
    /\ last'.status = "ok"

\* C3 as stated: establish_* followed by terminate_* on the same pair
\* leaves A.ac, A.dc, B.ac and B.dc identical to what they were before
\* the establish call, and the edge is absent on both sides afterwards.
C3_Original ==
    [][ \A a \in Neurons, b \in Neurons :
          /\ Followed("establish_axonal_connection",
                      "terminate_axonal_connection", a, b) =>
                /\ Conn(neurons') = Conn(pre)
                /\ ~AxonalSide(neurons', a, b)
                /\ ~DendriticSide(neurons', a, b)
          /\ Followed("establish_dendritic_connection",
                      "terminate_dendritic_connection", a, b) =>
                /\ Conn(neurons') = Conn(pre)
                /\ ~AxonalSide(neurons', b, a)
                /\ ~DendriticSide(neurons', b, a)
      ]_vars

\* C3 amended: establish_* followed by terminate_* on the same pair
\* leaves the four sets as they were before the establish call except
\* that the edge is absent on both sides; they are identical to what
\* they were exactly when the edge was absent before the establish call.
C3_TerminateReverses ==
    [][ \A a \in Neurons, b \in Neurons :
          /\ Followed("establish_axonal_connection",
                      "terminate_axonal_connection", a, b) =>
                /\ neurons'[a].ac = pre[a].ac \ {Soma(pre[b])}
                /\ neurons'[b].dc = pre[b].dc \ {Soma(pre[a])}
                /\ neurons'[a].dc = pre[a].dc
                /\ neurons'[b].ac = pre[b].ac
                /\ \A c \in Neurons \ {a, b} : neurons'[c] = pre[c]
                /\ (Conn(neurons') = Conn(pre)) <=>
                      (~AxonalSide(pre, a, b) /\ ~DendriticSide(pre, a, b))
          /\ Followed("establish_dendritic_connection",
                      "terminate_dendritic_connection", a, b) =>
                /\ neurons'[a].dc = pre[a].dc \ {Soma(pre[b])}
                /\ neurons'[b].ac = pre[b].ac \ {Soma(pre[a])}
                /\ neurons'[a].ac = pre[a].ac
                /\ neurons'[b].dc = pre[b].dc
                /\ \A c \in Neurons \ {a, b} : neurons'[c] = pre[c]
                /\ (Conn(neurons') = Conn(pre)) <=>
                      (~AxonalSide(pre, b, a) /\ ~DendriticSide(pre, b, a))
      ]_vars

\* terminate_axonal_connection has just removed, on both sides, an edge
\* that the preceding call left standing, other edges remaining.
C3_Witness ==
    \E a \in Neurons, b \in Neurons :
        /\ a # b
        /\ Called("terminate_axonal_connection", a, b)
        /\ AxonalSide(pre, a, b) /\ DendriticSide(pre, a, b)
        /\ ~AxonalSide(neurons, a, b) /\ ~DendriticSide(neurons, a, b)
        /\ neurons[a].ac # {} /\ neurons[b].dc # {}

FourOps ==
    { "establish_axonal_connection", "establish_dendritic_connection",
      "terminate_axonal_connection", "terminate_dendritic_connection" }

\* C4: each of the four connection operations returns normally, calling
\* it twice in a row on the same pair leaves all sets as one call left
\* them, and terminating an edge that is absent changes no set.
C4_Idempotent ==
    [][ /\ last'.op \in FourOps => last'.status = "ok"
        /\ \A a \in Neurons, b \in Neurons, op \in FourOps :
              Followed(op, op, a, b) => Conn(neurons') = Conn(neurons)
        /\ \A a \in Neurons, b \in Neurons :
              /\ ( /\ last'.op = "terminate_axonal_connection"
                   /\ last'.self = a /\ last'.other = b
                   /\ ~AxonalSide(neurons, a, b)
                   /\ ~DendriticSide(neurons, a, b) )
                 => Conn(neurons') = Conn(neurons)
              /\ ( /\ last'.op = "terminate_dendritic_connection"
                   /\ last'.self = a /\ last'.other = b
                   /\ ~AxonalSide(neurons, b, a)
                   /\ ~DendriticSide(neurons, b, a) )
                 => Conn(neurons') = Conn(neurons)
      ]_vars

\* terminate_dendritic_connection was called on an absent edge while
\* the opposite edge and others stand.
C4_Witness ==
    \E a \in Neurons, b \in Neurons :
        /\ a # b
        /\ Called("terminate_dendritic_connection", a, b)
        /\ ~AxonalSide(pre, b, a) /\ ~DendriticSide(pre, b, a)
        /\ AxonalSide(pre, a, b) /\ DendriticSide(pre, a, b)
        /\ neurons = pre

\* C5: prune_axonal_connection decides the edge self -> other by the
\* table: self.sw <= self.sst and self.sw < other.sw removes it on both
\* sides; otherwise self.sw >= other.sw (ties included, whatever sst)
\* leaves it present on both sides; otherwise no set changes.  No
\* scalar is modified.
C5_PruneAxonalTable ==
    \A a \in Neurons, b \in Neurons :
        Called("prune_axonal_connection", a, b) =>
            /\ Scalars(neurons) = Scalars(pre)
            /\ IF pre[a].sw <= pre[a].sst /\ pre[a].sw < pre[b].sw
               THEN ~AxonalSide(neurons, a, b) /\ ~DendriticSide(neurons, a, b)
               ELSE IF pre[a].sw >= pre[b].sw
               THEN AxonalSide(neurons, a, b) /\ DendriticSide(neurons, a, b)
               ELSE Conn(neurons) = Conn(pre)

\* prune_axonal_connection removed an existing edge of a weak neuron.
C5_Witness ==
    \E a \in Neurons, b \in Neurons :
        /\ Called("prune_axonal_connection", a, b)
        /\ pre[a].sw <= pre[a].sst /\ pre[a].sw < pre[b].sw
        /\ AxonalSide(pre, a, b) /\ DendriticSide(pre, a, b)
        /\ ~AxonalSide(neurons, a, b) /\ ~DendriticSide(neurons, a, b)

\* C6: prune_dendritic_connection(other) decides the edge other -> self:
\* self.sw <= self.sst and other.sw < self.sw removes it on both sides;
\* otherwise other.sw >= self.sw establishes it on both sides; otherwise
\* nothing changes.  At equal weights both pruning operations establish
\* their edge, whatever sst.
C6_PruneDendriticTable ==
    \A a \in Neurons, b \in Neurons :
        /\ Called("prune_dendritic_connection", a, b) =>
              IF pre[a].sw <= pre[a].sst /\ pre[b].sw < pre[a].sw
              THEN ~AxonalSide(neurons, b, a) /\ ~DendriticSide(neurons, b, a)
              ELSE IF pre[b].sw >= pre[a].sw
              THEN AxonalSide(neurons, b, a) /\ DendriticSide(neurons, b, a)
              ELSE neurons = pre
        /\ (Called("prune_dendritic_connection", a, b) /\ pre[a].sw = pre[b].sw)
              => AxonalSide(neurons, b, a) /\ DendriticSide(neurons, b, a)
        /\ (Called("prune_axonal_connection", a, b) /\ pre[a].sw = pre[b].sw)
              => AxonalSide(neurons, a, b) /\ DendriticSide(neurons, a, b)

\* prune_dendritic_connection established an absent edge at equal
\* weights although self.sw <= self.sst.
C6_Witness ==
    \E a \in Neurons, b \in Neurons :
        /\ Called("prune_dendritic_connection", a, b)
        /\ pre[a].sw = pre[b].sw /\ pre[a].sw <= pre[a].sst
        /\ ~AxonalSide(pre, b, a) /\ ~DendriticSide(pre, b, a)
        /\ AxonalSide(neurons, b, a) /\ DendriticSide(neurons, b, a)

\* C7 as stated: prune_axonal_connection changes no connection set when
\* self.sw <= self.sst and self.sw >= other.sw.
C7_Original ==
    \A a \in Neurons, b \in Neurons :
        ( /\ Called("prune_axonal_connection", a, b)
          /\ pre[a].sw <= pre[a].sst /\ pre[a].sw >= pre[b].sw )
        => Conn(neurons) = Conn(pre)

\* C7 amended: prune_axonal_connection changes no connection set when
\* self.sw > self.sst and self.sw < other.sw; when self.sw <= self.sst
\* and self.sw >= other.sw it establishes the edge on both sides and
\* changes nothing else.
C7_PruneAxonalNoChange ==
    \A a \in Neurons, b \in Neurons :
        Called("prune_axonal_connection", a, b) =>
            /\ (pre[a].sw > pre[a].sst /\ pre[a].sw < pre[b].sw)
                  => Conn(neurons) = Conn(pre)
            /\ (pre[a].sw <= pre[a].sst /\ pre[a].sw >= pre[b].sw)
                  => /\ neurons[a].ac = pre[a].ac \cup {Soma(pre[b])}
                     /\ neurons[b].dc = pre[b].dc \cup {Soma(pre[a])}
                     /\ neurons[a].dc = pre[a].dc
                     /\ neurons[b].ac = pre[b].ac
                     /\ \A c \in Neurons \ {a, b} : neurons[c] = pre[c]

\* prune_axonal_connection left both an absent edge absent in the
\* no-change case.
C7_Witness ==
    \E a \in Neurons, b \in Neurons :
        /\ Called("prune_axonal_connection", a, b)
        /\ pre[a].sw > pre[a].sst /\ pre[a].sw < pre[b].sw
        /\ ~AxonalSide(pre, a, b) /\ ~AxonalSide(neurons, a, b)
        /\ pre[a].ac # {}

\* ------------------------------------------------ construction claims
\* C8: Neuron::new panics, producing no neuron, whenever nt > 2 or
\* nrt > 1; for nt in {0,1,2} and nrt in {0,1} it returns the default
\* state ap=0, tp=-55.0, mp=-70.0, fr=0, sw=1.0, sst=0, pr=1.0, arp=0,
\* rrp=1.0, nc=1.0, ltp=0, ltd=0, empty ac and dc, with the given
\* coordinates and type codes stored unchanged.
C8_New ==
    \A id \in Neurons :
        (last.op = "new" /\ last.self = id) =>
            LET nt  == last.args[1]
                nrt == last.args[2]
                c   == CoordArgs(id)
            IN  IF nt > 2 \/ nrt > 1
                THEN last.status = "panic" /\ neurons = pre
                ELSE /\ last.status = "ok"
                     /\ \A o \in Neurons \ {id} : neurons[o] = pre[o]
                     /\ neurons[id] =
                          [ x |-> c[1], y |-> c[2], z |-> c[3],
                            ax |-> c[4], ay |-> c[5], az |-> c[6],
                            nt |-> nt, nrt |-> nrt,
                            ap |-> 0, tp |-> -55 * Scale, mp |-> -70 * Scale,
                            fr |-> 0, sw |-> Scale, sst |-> 0, pr |-> Scale,
                            arp |-> 0, rrp |-> Scale, nc |-> Scale,
                            ltp |-> 0, ltd |-> 0, ac |-> {}, dc |-> {} ]

\* Neuron::new succeeded with the largest valid neuron type and the
\* inhibitory transmitter, replacing a neuron of other type codes.
C8_Witness ==
    \E id \in Neurons :
        /\ last.op = "new" /\ last.self = id /\ last.status = "ok"
        /\ last.args = <<2, 0>>
        /\ neurons[id].nt = 2 /\ neurons[id].nrt = 0
        /\ pre[id].nt # 2 /\ pre[id].nrt # 0

C11_RefractoryGate ==
    \A id \in Neurons :
        (last.op = "transmit" /\ last.self = id /\ last.status = "ok"
            /\ pre[id].arp > 0) =>
              /\ neurons[id].arp < pre[id].arp
              /\ neurons[id].arp =
                    Max(0, pre[id].arp - Mul(Dec(99, 100), pre[id].fr))
              /\ [neurons EXCEPT ![id].arp = 0] = [pre EXCEPT ![id].arp = 0]

\* A strong positive input reached a refractory neuron that held a
\* positive accumulated potential, and left it still refractory.
C11_Witness ==
    /\ last.op = "transmit" /\ last.self = Subject /\ last.status = "ok"
    /\ last.input >= Dec(20, 1)
    /\ pre[Subject].ap > 0
    /\ pre[Subject].arp > 0
    /\ neurons[Subject].arp > 0
    /\ neurons[Subject].arp < pre[Subject].arp

\* C12: after a detect() that fires, a later detect() issued while ap
\* is still 0 returns 0.0; here the later detect() is the very next
\* call on the neuron, with no transmit in between.
C12_Original ==
    [][ \A id \in Neurons :
          ( /\ last.op = "detect" /\ last.self = id
            /\ detect_fires(pre[id])
            /\ neurons[id].ap = 0
            /\ last'.op = "detect" /\ last'.self = id ) =>
                (last'.ret = 0 /\ ~last'.retnan)
      ]_vars

\* C13: detect() on a quiescent neuron (mp < tp) returns exactly 0.0 and
\* changes no field of any neuron.
C13_QuiescentDetect ==
    \A id \in Neurons :
        (Called("detect", id, "none") /\ pre[id].mp < pre[id].tp) =>
            /\ last.ret = 0 /\ ~last.retnan
            /\ neurons = pre

\* detect() was called below threshold on a neuron that holds a positive
\* accumulated potential and has fired before.
C13_Witness ==
    /\ Called("detect", Subject, "none")
    /\ pre[Subject].mp < pre[Subject].tp
    /\ pre[Subject].ap > 0
    /\ pre[Subject].fr > 0
    /\ neurons[Subject].ap = pre[Subject].ap

\* C14: after detect() on a firing-eligible neuron (mp >= tp) ap is
\* exactly 0.0 whatever it was, and no field other than ap has changed.
C14_FiringDetect ==
    \A id \in Neurons :
        (Called("detect", id, "none") /\ pre[id].mp >= pre[id].tp) =>
            /\ neurons[id].ap = 0
            /\ [neurons EXCEPT ![id].ap = 0] = [pre EXCEPT ![id].ap = 0]

\* detect() fired on a neuron whose accumulated potential was 80.0.
C14_Witness ==
    /\ Called("detect", Subject, "none")
    /\ pre[Subject].mp >= pre[Subject].tp
    /\ pre[Subject].ap = Dec(80, 1)
    /\ neurons[Subject].ap = 0
    /\ neurons[Subject].mp = pre[Subject].mp

C16_LoopTerminates ==
    <>( /\ pc = "done"
        /\ Called("detect", "neuron2", "none")
        /\ last.ret > 0
        /\ neurons["neuron2"].ap = 0 )

\* The loop was left by the break after the negative signal of neuron0
\* had been received: neuron2 was firing-eligible with a positive
\* accumulated potential, and neuron1 has fired.
C16_Witness ==
    /\ pc = "done"
    /\ neurons["neuron0"].fr > 0
    /\ neurons["neuron2"].ltd < 0
    /\ neurons["neuron1"].fr > 0
    /\ pre["neuron2"].mp >= pre["neuron2"].tp
    /\ pre["neuron2"].ap > 0
    /\ last.ret > 0
    /\ neurons["neuron2"].ap = 0

\* C17: transmit(input, Some(source)) never fails, whatever the
\* coordinates, in particular when a coordinate of source is larger than
\* that of self; the delay is the rounded Euclidean distance of the two
\* somas and is the same whichever of the two neurons is self.
C17_Original ==
    \A id \in Neurons, src \in Neurons :
        (last.op = "transmit" /\ last.self = id /\ last.other = src) =>
            /\ last.status = "ok"
            /\ 4 * calculate_distance_squared(pre[id], pre[src])
                  < (2 * last.ret + 1) * (2 * last.ret + 1)
            /\ last.ret = 0 \/
                  (2 * last.ret - 1) * (2 * last.ret - 1)
                    <= 4 * calculate_distance_squared(pre[id], pre[src])
            /\ last.ret = signal_delay_millis(
                              calculate_distance_squared(pre[src], pre[id]))

\* C18: a transmit call that finds arp = 0 leaves exactly the state of
\* the reference pipeline: ap gains input * nc * rrp times 0.8 (0.08
\* when |input| < 10) with the rrp on entry; mp = clamp(-70 + ap); tp =
\* min(-50, -55 + 0.01 ap (if ap > 0) + 0.02 fr) with the fr on entry;
\* rrp recovers by 0.165 fr with the fr on entry, then arp := 1 and
\* rrp := 0 exactly when the new mp >= the new tp; fr and pr are updated
\* on the new mp, tp and ap, pr with the updated fr; ltp, ltd and sst
\* follow the input; sw is updated last, with the updated ltp, ltd, pr.
C18_ReferencePipeline ==
    \A id \in Neurons :
        (last.op = "transmit" /\ last.self = id /\ last.status = "ok"
            /\ pre[id].arp = 0) =>
        LET p     == pre[id]
            i     == last.input
            gain  == IF Abs(i) >= Dec(10, 1) THEN Dec(8, 10) ELSE Dec(8, 100)
            ap1   == p.ap + Mul(Mul(Mul(gain, i), p.nc), p.rrp)
            mp1   == Clamp(Dec(-70, 1) + ap1, Dec(-90, 1), Dec(-20, 1))
            tp1   == Min(Dec(-50, 1),
                         Dec(-55, 1)
                           + (IF ap1 > 0 THEN Mul(Dec(1, 100), ap1) ELSE 0)
                           + Mul(Dec(2, 100), p.fr))
            fires == mp1 >= tp1
            rec   == IF p.rrp < Dec(1, 1)
                     THEN Min(p.rrp + Mul(Dec(165, 1000), p.fr), Dec(1, 1))
                     ELSE p.rrp
            fr1   == Min(IF fires
                         THEN p.fr + Mul(Dec(1, 100), Div(ap1, Dec(10, 1)))
                         ELSE Mul(p.fr, Dec(92, 100)),
                         Dec(1, 1))
            pr1   == Min(IF fires THEN p.pr + Mul(Dec(1, 100), fr1)
                         ELSE Mul(p.pr, Dec(96, 100)),
                         Dec(1, 1))
            ltp1  == Min(IF i > 0
                         THEN p.ltp + Mul(Dec(1, 100), Div(i, Dec(10, 1)))
                         ELSE Mul(p.ltp, Dec(96, 100)),
                         Dec(1, 1))
            ltd1  == Max(IF i < 0
                         THEN p.ltd + Mul(Dec(1, 100), Div(i, Dec(10, 1)))
                         ELSE Mul(p.ltd, Dec(96, 100)),
                         Dec(-1, 1))
            sst1  == Clamp(p.sst - Mul(Dec(1, 100), Div(i, Dec(10, 1))),
                           Dec(-1, 1), Dec(1, 1))
            sw1   == Clamp(p.sw + Mul(ltp1 + ltd1, pr1), Dec(-1, 1), Dec(1, 1))
        IN  neurons =
              [pre EXCEPT ![id] =
                 [p EXCEPT !.ap = ap1, !.mp = mp1, !.tp = tp1,
                           !.arp = IF fires THEN Dec(1, 1) ELSE p.arp,
                           !.rrp = IF fires THEN 0 ELSE rec,
                           !.fr = fr1, !.pr = pr1, !.ltp = ltp1,
                           !.ltd = ltd1, !.sst = sst1, !.sw = sw1]]

\* An ungated call on a neuron that has fired before and is still
\* relatively refractory: rrp recovered with the fr on entry while fr
\* itself decayed, and ap grew by the rrp-scaled input.
C18_Witness ==
    /\ last.op = "transmit" /\ last.self = Subject /\ last.status = "ok"
    /\ last.input > 0
    /\ pre[Subject].arp = 0
    /\ 0 < pre[Subject].rrp /\ pre[Subject].rrp < Scale
    /\ neurons[Subject].rrp > pre[Subject].rrp
    /\ 0 < neurons[Subject].fr /\ neurons[Subject].fr < pre[Subject].fr
    /\ neurons[Subject].ap > pre[Subject].ap
    /\ neurons[Subject].arp = 0

\* C19: a fresh neuron that has received only inputs <= 0 is never
\* firing-eligible: ap <= 0 and mp < tp, and every detect() returns 0.0.
C19_NonPositiveQuiet ==
    LET n == neurons[Subject]
    IN  /\ n.ap <= 0
        /\ n.mp < n.tp
        /\ Called("detect", Subject, "none") =>
              (last.ret = 0 /\ ~last.retnan)

\* detect() returned 0.0 after negative inputs had driven ap below zero
\* and mp below the resting potential.
C19_Witness ==
    /\ Called("detect", Subject, "none")
    /\ last.ret = 0
    /\ neurons[Subject].ap < 0
    /\ neurons[Subject].mp < Dec(-70, 1)
    /\ neurons[Subject].ltd < 0
    /\ processed >= 2

\* C20: in every state reachable through transmit and detect calls
\* alone, mp >= tp implies fr > 0, so the division by fr in fire() is
\* never a division by zero.
C20_FiringRatePositive ==
    \A id \in Neurons :
        /\ neurons[id].mp >= neurons[id].tp => neurons[id].fr > 0
        /\ (Called("detect", id, "none") /\ detect_fires(pre[id])) =>
              (pre[id].fr > 0 /\ ~last.retnan)

\* An excitatory neuron fired for the first time: fire() divided by the
\* fr the threshold crossing had just raised from zero.
C20_Witness ==
    /\ Called("detect", Subject, "none")
    /\ detect_fires(pre[Subject])
    /\ pre[Subject].nrt = 1
    /\ pre[Subject].fr = Dec(16, 1000)
    /\ pre[Subject].ap = Dec(16, 1)
    /\ last.ret = Dec(10, 1)
    /\ processed = 1

\* C21: the absolute refractory period always ends: from any state with
\* arp > 0, after finitely many further transmit calls, whatever the
\* inputs and the detect calls in between, arp is 0 (unless a panic has
\* ended the program); and a transmit call that finds arp = 0 runs the
\* pipeline: mp is recomputed from the new ap and sst follows the input.
C21_RefractoryEnds ==
    /\ (Running /\ neurons[Subject].arp > 0)
          ~> (neurons[Subject].arp = 0 \/ ~Running)
    /\ [][ ( /\ neurons[Subject].arp = 0
             /\ last'.op = "transmit" /\ last'.self = Subject
             /\ last'.status = "ok" ) =>
               /\ neurons'[Subject].mp =
                     Clamp(Dec(-70, 1) + neurons'[Subject].ap,
                           Dec(-90, 1), Dec(-20, 1))
               /\ neurons'[Subject].sst =
                     Clamp(neurons[Subject].sst
                             - Mul(Dec(1, 100), Div(last'.input, Dec(10, 1))),
                           Dec(-1, 1), Dec(1, 1))
       ]_vars

\* A refractory period has run its course: the neuron fired, was gated
\* until arp reached 0, and the next transmit call ran the pipeline.
C21_Witness ==
    /\ last.op = "transmit" /\ last.self = Subject /\ last.status = "ok"
    /\ last.input # 0
    /\ pre[Subject].arp = 0
    /\ pre[Subject].rrp = 0
    /\ pre[Subject].fr > 0
    /\ neurons[Subject].sst # pre[Subject].sst
    /\ processed >= 2

\* ---------------------------------------------------- pruning claims
\* C22: on the edge a -> b, a.prune_axonal_connection(b) and
\* b.prune_dendritic_connection(a) never contradict each other: made in
\* the same state, each of them establishes an absent edge exactly when
\* a.sw >= b.sw and removes a present edge only when a.sw < b.sw; and
\* once one of them has established the edge, the other call would not
\* remove it.
C22_PrunesAgree ==
    \A a \in Neurons, b \in Neurons :
        a # b =>
        LET made == Called("prune_axonal_connection", a, b)
                      \/ Called("prune_dendritic_connection", b, a)
            ax   == prune_axonal_connection(pre, a, b)
            de   == prune_dendritic_connection(pre, b, a)
            ge   == pre[a].sw >= pre[b].sw
        IN  made =>
              /\ ~AxonalSide(pre, a, b) =>
                    /\ AxonalSide(ax, a, b) <=> ge
                    /\ AxonalSide(de, a, b) <=> ge
                    /\ AxonalSide(neurons, a, b) <=> ge
              /\ AxonalSide(pre, a, b) =>
                    /\ ~AxonalSide(ax, a, b) => ~ge
                    /\ ~AxonalSide(de, a, b) => ~ge
                    /\ ~AxonalSide(neurons, a, b) => ~ge
              /\ (~AxonalSide(pre, a, b) /\ AxonalSide(neurons, a, b)) =>
                    /\ AxonalSide(prune_axonal_connection(neurons, a, b), a, b)
                    /\ AxonalSide(prune_dendritic_connection(neurons, b, a), a, b)

\* a.prune_axonal_connection(b) established the absent edge a -> b
\* towards a neuron b that is at its strength threshold, the case where
\* b.prune_dendritic_connection(a) has its removal condition half met.
C22_Witness ==
    \E a \in Neurons, b \in Neurons :
        /\ a # b
        /\ Called("prune_axonal_connection", a, b)
        /\ pre[b].sw <= pre[b].sst
        /\ pre[a].sw > pre[b].sw
        /\ ~AxonalSide(pre, a, b)
        /\ AxonalSide(neurons, a, b) /\ DendriticSide(neurons, a, b)

====
